---- MODULE Spec2Model ----
(***************************************************************************)
(* The EDI non-validating raw segment reader (package edi,                 *)
(* NonValidatingReader) as a state machine.  A byte is a string naming it  *)
(* ("A", "*", "CR", "LF", "xFF" ...); a []byte is a sequence of bytes; a   *)
(* nil / not configured delimiter is the empty sequence.                   *)
(***************************************************************************)
EXTENDS Integers, Sequences, FiniteSets, TLC

VARIABLES
    decl,        \* FileDecl: SegDelim, ElemDelim, CompDelim, RepDelim, ReleaseChar
    scanner,     \* bufio.Scanner over the input: unread data, stream failure, err
    runeBegin,   \* NonValidatingReader.runeBegin
    runeEnd,     \* NonValidatingReader.runeEnd
    segCount,    \* NonValidatingReader.segCount
    rawSeg,      \* NonValidatingReader.rawSeg (the reusable RawSeg)
    stdout,      \* what the process has written to standard output
    ret,         \* what the last Read call returned: (RawSeg, error)
    input,       \* the bytes of the input stream as given (never changed)
    calls        \* one record per Read call made so far

vars == <<decl, scanner, runeBegin, runeEnd, segCount, rawSeg, stdout, ret, input, calls>>

-----------------------------------------------------------------------------
(* Bounds of the model. *)

\* longest input stream of the stream specification (Spec)
MaxLen == 5
\* longest token body (the bytes before the segment delimiter) of SpecTok
MaxTok == 5
\* how many Read calls that find no token (EOF or scanner error) are followed
MaxIdle == 2
\* longest input stream of the specifications SpecIO and SpecCRLF
MaxShort == 4

-----------------------------------------------------------------------------
(* Bytes and byte slices. *)

crBytes == <<"CR">>
lfBytes == <<"LF">>

\* s[n:] and s[:n] of Go, n counted from 0
Drop(s, n) == SubSeq(s, n + 1, Len(s))
Take(s, n) == SubSeq(s, 1, n)

\* bytes.HasPrefix / bytes.HasSuffix
HasPrefix(s, p) == Len(p) <= Len(s) /\ Take(s, Len(p)) = p
HasSuffix(s, p) == Len(p) <= Len(s) /\ Drop(s, Len(s) - Len(p)) = p

RECURSIVE SeqsOfLen(_, _)
SeqsOfLen(S, n) ==
    IF n = 0 THEN {<<>>}
    ELSE {Append(s, b) : s \in SeqsOfLen(S, n - 1), b \in S}

SeqsUpTo(S, n) == UNION {SeqsOfLen(S, k) : k \in 0..n}

RECURSIVE Flatten(_)
Flatten(ss) == IF ss = <<>> THEN <<>> ELSE Head(ss) \o Flatten(Tail(ss))

-----------------------------------------------------------------------------
(* utf8.DecodeRune: the rune at the head of b and its width in bytes.      *)
(* "xFF" is a byte that starts no UTF-8 sequence; every other byte of the  *)
(* model is ASCII.                                                          *)

RuneError == "RuneError"

DecodeRune(b) ==
    IF b = <<>> THEN [r |-> RuneError, size |-> 0]
    ELSE IF Head(b) = "xFF" THEN [r |-> RuneError, size |-> 1]
    ELSE [r |-> Head(b), size |-> 1]

-----------------------------------------------------------------------------
(* strs.ByteIndexWithEsc / strs.ByteSplitWithEsc (go-corelib): split on a  *)
(* delimiter, where the escape (release) byte escapes the byte after it,   *)
(* itself included.  An index is counted from 0; -1 is "not found".        *)

RECURSIVE IndexFrom(_, _, _, _)
IndexFrom(s, delim, esc, i) ==
    IF i + Len(delim) > Len(s) THEN -1
    ELSE IF esc # <<>> /\ HasPrefix(Drop(s, i), esc)
         THEN IndexFrom(s, delim, esc, i + Len(esc) + 1)
    ELSE IF HasPrefix(Drop(s, i), delim) THEN i
    ELSE IndexFrom(s, delim, esc, i + 1)

ByteIndexWithEsc(s, delim, esc) ==
    IF delim = <<>> THEN 0 ELSE IndexFrom(s, delim, esc, 0)

RECURSIVE ByteSplitWithEsc(_, _, _)
\* the split of s, given the index i of its first delimiter
SplitAt(s, delim, esc, i) ==
    IF i < 0 THEN <<s>>
    ELSE <<Take(s, i)>> \o ByteSplitWithEsc(Drop(s, i + Len(delim)), delim, esc)

ByteSplitWithEsc(s, delim, esc) ==
    SplitAt(s, delim, esc, ByteIndexWithEsc(s, delim, esc))

-----------------------------------------------------------------------------
(* The scanner: ios.NewScannerByDelim3(r, segDelim, releaseChar,           *)
(* scannerFlags, buf) as a bufio.Scanner.  A token is the bytes up to and  *)
(* including the next segment delimiter that is not escaped; what is left  *)
(* at the end of the stream without a delimiter is no token.               *)
(* A stream that fails delivers its I/O error together with its last       *)
(* `last` bytes (with none of them when last = 0).  The scanner reads on   *)
(* only when it holds no whole token, so it keeps the error from the token *)
(* on that reaches into those last bytes: Scan still returns that token    *)
(* and the ones after it, and Err() is not nil from then on.               *)

NoErr == "nil"
IOErr == "io error"

\* ios.NewBytesReplacingReader(r, crBytes, nil) then (r, lfBytes, nil)
RECURSIVE StripCRLF(_)
StripCRLF(s) ==
    IF s = <<>> THEN <<>>
    ELSE IF <<Head(s)>> \in {crBytes, lfBytes} THEN StripCRLF(Tail(s))
    ELSE <<Head(s)>> \o StripCRLF(Tail(s))

\* the unread bytes, whether the stream fails, the error the scanner keeps,
\* and how many of the unread bytes the stream delivers before its error
NewScanner(data, fails, last) ==
    [data |-> data, fails |-> fails, err |-> NoErr,
     clean |-> IF fails /\ last < Len(data) THEN Len(data) - last
               ELSE IF fails THEN 0 ELSE Len(data)]

\* the scanner after a token of n bytes
Advance(sc, n) ==
    [sc EXCEPT !.data = Drop(sc.data, n),
               !.err = IF sc.fails /\ n > sc.clean THEN IOErr ELSE sc.err,
               !.clean = IF n > sc.clean THEN 0 ELSE sc.clean - n]

\* the split function of the scanner on the unread data, given the index i
\* of the first segment delimiter in it
ScanAt(sc, d, i) ==
    IF sc.data # <<>> /\ i >= 0
    THEN [ok |-> TRUE,
          token |-> Take(sc.data, i + Len(d.SegDelim)),
          sc |-> Advance(sc, i + Len(d.SegDelim))]
    ELSE [ok |-> FALSE,
          token |-> <<>>,
          sc |-> [sc EXCEPT !.data = <<>>, !.clean = 0,
                            !.err = IF sc.fails THEN IOErr ELSE sc.err]]

\* scanner.Scan() with scanner.Bytes(): ok, the token, and the scanner after
Scan(sc, d) == ScanAt(sc, d, ByteIndexWithEsc(sc.data, d.SegDelim, d.ReleaseChar))

-----------------------------------------------------------------------------
(* RawSeg and its helpers. *)

ErrMissingSegName == "missing segment name"
ErrCannotReadSeg == "cannot read segment"
EOF == "EOF"

\* RawSeg{}
ZeroRawSeg == [valid |-> FALSE, Name |-> <<>>, Raw |-> <<>>, Elems |-> <<>>]

newRawSeg == [valid |-> FALSE, Name |-> <<>>, Raw |-> <<>>, Elems |-> <<>>]

resetRawSeg(raw) ==
    [raw EXCEPT !.valid = FALSE, !.Name = <<>>, !.Raw = <<>>, !.Elems = <<>>]

RawSegElem(i, j, data) == [ElemIndex |-> i, CompIndex |-> j, Data |-> data]

RECURSIVE runeCountLoop(_, _, _)
\* one turn of the loop, r and size being utf8.DecodeRune(b)
runeCountTurn(b, runeCount, onlyCRLF, dec) ==
    IF dec.r = RuneError THEN <<runeCount, onlyCRLF>>
    ELSE runeCountLoop(Drop(b, dec.size), runeCount + 1,
                       onlyCRLF /\ dec.r \in {"LF", "CR"})

runeCountLoop(b, runeCount, onlyCRLF) ==
    runeCountTurn(b, runeCount, onlyCRLF, DecodeRune(b))

\* runeCountAndHasOnlyCRLF that never reports a token as only CR and LF
runeCountNeverOnlyCRLF(b) == <<runeCountLoop(b, 0, TRUE)[1], FALSE>>

runeCountAndHasOnlyCRLF(b) == runeCountLoop(b, 0, TRUE)

-----------------------------------------------------------------------------
(* readToken *)

\* dropCR that drops the CR whatever the segment delimiter is
dropCRAlways(noSegDelim, d) ==
    IF HasSuffix(noSegDelim, crBytes)
    THEN Take(noSegDelim, Len(noSegDelim) - 1)
    ELSE noSegDelim

dropCR(noSegDelim, d) ==
    IF d.SegDelim = lfBytes /\ HasSuffix(noSegDelim, crBytes)
    THEN Take(noSegDelim, Len(noSegDelim) - 1)
    ELSE noSegDelim

\* sliceSegDelim that takes the segment delimiter to be one byte long
sliceSegDelimOneByte(token, d) == Take(token, Len(token) - 1)

\* token[:len(token)-len(r.segDelim)]
sliceSegDelim(token, d) == Take(token, Len(token) - Len(d.SegDelim))

\* the token without its trailing segment delimiter, and without one
\* trailing CR when the segment delimiter is "\n"
dropSegDelim(token, d) == dropCR(sliceSegDelim(token, d), d)

\* the repetitions of one element
elemVals(elem, d) ==
    IF Len(d.RepDelim) # 0
    THEN ByteSplitWithEsc(elem, d.RepDelim, d.ReleaseChar)
    ELSE <<elem>>

\* the entries of one repetition of element i
\* compIndexed with the component index counted from 0
compIndexedFromZero(i, comps) ==
    [j \in 1..Len(comps) |-> RawSegElem(i, j - 1, comps[j])]

compIndexed(i, comps) == [j \in 1..Len(comps) |-> RawSegElem(i, j, comps[j])]

compElems(i, elemVal, d) ==
    IF Len(d.CompDelim) = 0
    THEN <<RawSegElem(i, 1, elemVal)>>
    ELSE compIndexed(i, ByteSplitWithEsc(elemVal, d.CompDelim, d.ReleaseChar))

\* repElems that keeps the first repetition only
repElemsFirstOnly(i, vals, d) == compElems(i, vals[1], d)

\* the entries of the repetitions vals of element i, one after the other
repElems(i, vals, d) == Flatten([k \in 1..Len(vals) |-> compElems(i, vals[k], d)])

\* the entries of element i
elemElems(i, elem, d) == repElems(i, elemVals(elem, d), d)

\* allElems with the element index counted from 1, the name included
allElemsFromOne(elems, d) ==
    Flatten([i \in 1..Len(elems) |-> elemElems(i, elems[i], d)])

\* the entries of the elements elems, one after the other (index from 0)
allElems(elems, d) == Flatten([i \in 1..Len(elems) |-> elemElems(i - 1, elems[i], d)])

\* tokenElems that splits the elements without regard to the release byte
tokenElemsNoRelease(token, d) ==
    allElems(ByteSplitWithEsc(dropSegDelim(token, d), d.ElemDelim, <<>>), d)

\* tokenElems that hands the release byte and the element delimiter to the
\* split in each other's place
tokenElemsSwapped(token, d) ==
    IF d.ReleaseChar = <<>>
    THEN allElems(ByteSplitWithEsc(dropSegDelim(token, d), d.ElemDelim, <<>>), d)
    ELSE allElems(ByteSplitWithEsc(dropSegDelim(token, d), d.ReleaseChar, d.ElemDelim), d)

\* the entries of the whole token
tokenElems(token, d) ==
    allElems(ByteSplitWithEsc(dropSegDelim(token, d), d.ElemDelim, d.ReleaseChar), d)

\* json.Marshal(r.rawSeg): the exported fields
Marshal(seg) == [Name |-> seg.Name, Raw |-> seg.Raw, Elems |-> seg.Elems]

\* readToken(token, &r.rawSeg): the RawSeg after, the error, the lines printed
\* the end of readToken: the name check, the name, the print
nameSeg(filled) == [filled EXCEPT !.Name = filled.Elems[1].Data, !.valid = TRUE]

printed(done) == [rawSeg |-> done, err |-> NoErr, out |-> <<Marshal(done)>>]

\* checkName that only fails when there is no entry at all
checkNameNoEntryOnly(filled) ==
    IF Len(filled.Elems) = 0
    THEN [rawSeg |-> filled, err |-> ErrMissingSegName, out |-> <<>>]
    ELSE printed(nameSeg(filled))

checkName(filled) ==
    IF Len(filled.Elems) = 0 \/ Len(filled.Elems[1].Data) = 0
    THEN [rawSeg |-> filled, err |-> ErrMissingSegName, out |-> <<>>]
    ELSE printed(nameSeg(filled))

readToken(token, seg, d) ==
    checkName([resetRawSeg(seg) EXCEPT !.Raw = token, !.Elems = tokenElems(token, d)])

-----------------------------------------------------------------------------
(* Read *)

\* the reader's own state, as one record
Reader(sc, rb, re, n, seg, out) ==
    [scanner |-> sc, runeBegin |-> rb, runeEnd |-> re, segCount |-> n,
     rawSeg |-> seg, stdout |-> out]

\* ios.NewBytesReplacingReader(r, crBytes, nil) alone
RECURSIVE StripCR(_)
StripCR(s) ==
    IF s = <<>> THEN <<>>
    ELSE IF <<Head(s)>> = crBytes THEN StripCR(Tail(s))
    ELSE <<Head(s)>> \o StripCR(Tail(s))

\* NewNonValidatingReader that takes the CR bytes out and leaves the LF bytes
NewNonValidatingReaderCROnly(data, fails, last, d) ==
    Reader(NewScanner(IF d.IgnoreCRLF THEN StripCR(data) ELSE data, fails, last),
           1, 1, 0, newRawSeg, <<>>)

\* NewNonValidatingReader(r, decl), r a stream holding `data` that ends
\* cleanly or, when `fails`, with an I/O error that comes with its last
\* `last` bytes
NewNonValidatingReader(data, fails, last, d) ==
    Reader(NewScanner(IF d.IgnoreCRLF THEN StripCRLF(data) ELSE data, fails, last),
           1, 1, 0, newRawSeg, <<>>)

\* the loop of Read: scan until a token that is not skipped, or until Scan
\* returns false.  `seen` collects the tokens scanned on the way.
RECURSIVE scanLoop(_, _, _, _, _)
\* the body of the loop for the token of scan s, c being its rune count and
\* whether it holds only CR and LF
scanBody(s, c, re, d, seen) ==
    IF c[2]
    THEN scanLoop(s.sc, re, re + c[1], d, Append(seen, s.token))
    ELSE [found |-> TRUE, token |-> s.token, sc |-> s.sc,
          runeBegin |-> re, runeEnd |-> re + c[1],
          seen |-> Append(seen, s.token)]

scanTurn(s, rb, re, d, seen) ==
    IF ~s.ok
    THEN [found |-> FALSE, token |-> <<>>, sc |-> s.sc,
          runeBegin |-> rb, runeEnd |-> re, seen |-> seen]
    ELSE scanBody(s, runeCountAndHasOnlyCRLF(s.token), re, d, seen)

scanLoop(sc, rb, re, d, seen) == scanTurn(Scan(sc, d), rb, re, d, seen)

\* one call of Read on reader rd: the reader after, what is returned, and
\* the tokens the call took from the scanner
\* what Read returns for a token: t is what readToken made of it
readReturn(moved, l, t) ==
    IF t.err # NoErr
    THEN [rd |-> [moved EXCEPT !.rawSeg = t.rawSeg],
          seg |-> ZeroRawSeg, err |-> t.err,
          found |-> l.found, seen |-> l.seen]
    ELSE [rd |-> [moved EXCEPT !.rawSeg = t.rawSeg,
                               !.stdout = moved.stdout \o t.out],
          seg |-> t.rawSeg, err |-> NoErr,
          found |-> l.found, seen |-> l.seen]

\* readAfterLoop that returns the reader's own RawSeg with io.EOF
readAfterLoopStaleSeg(moved, l, d) ==
    IF l.sc.err # NoErr
    THEN [rd |-> moved, seg |-> ZeroRawSeg, err |-> ErrCannotReadSeg,
          found |-> l.found, seen |-> l.seen]
    ELSE IF ~l.found
    THEN [rd |-> moved, seg |-> moved.rawSeg, err |-> EOF,
          found |-> l.found, seen |-> l.seen]
    ELSE readReturn(moved, l, readToken(l.token, moved.rawSeg, d))

\* readAfterLoop that looks at the token before it looks at scanner.Err()
readAfterLoopTokenFirst(moved, l, d) ==
    IF ~l.found
    THEN [rd |-> moved, seg |-> ZeroRawSeg, err |-> EOF,
          found |-> l.found, seen |-> l.seen]
    ELSE IF l.sc.err # NoErr
    THEN [rd |-> moved, seg |-> ZeroRawSeg, err |-> ErrCannotReadSeg,
          found |-> l.found, seen |-> l.seen]
    ELSE readReturn(moved, l, readToken(l.token, moved.rawSeg, d))

\* Read after its loop: l is how the loop ended, moved the reader then
readAfterLoop(moved, l, d) ==
    IF l.sc.err # NoErr
    THEN [rd |-> moved, seg |-> ZeroRawSeg, err |-> ErrCannotReadSeg,
          found |-> l.found, seen |-> l.seen]
    ELSE IF ~l.found
    THEN [rd |-> moved, seg |-> ZeroRawSeg, err |-> EOF,
          found |-> l.found, seen |-> l.seen]
    ELSE readReturn(moved, l, readToken(l.token, moved.rawSeg, d))

\* readLoopDone that counts a Read call only when it found a token
readLoopDoneCountTokens(rd, l, d) ==
    readAfterLoop([rd EXCEPT !.scanner = l.sc, !.runeBegin = l.runeBegin,
                             !.runeEnd = l.runeEnd,
                             !.segCount = IF l.found THEN rd.segCount + 1
                                          ELSE rd.segCount],
                  l, d)

\* the end of the loop of Read: the scanner and the rune positions as the
\* loop left them, and the call counted
readLoopDone(rd, l, d) ==
    readAfterLoop([rd EXCEPT !.scanner = l.sc, !.runeBegin = l.runeBegin,
                             !.runeEnd = l.runeEnd, !.segCount = rd.segCount + 1],
                  l, d)

ReadStep(rd, d) ==
    readLoopDone(rd, scanLoop(rd.scanner, rd.runeBegin, rd.runeEnd, d, <<>>), d)

\* the reader the variables hold
Self == Reader(scanner, runeBegin, runeEnd, segCount, rawSeg, stdout)

\* Read calls so far that took no token to process (EOF or scanner error)
Idle == Cardinality({k \in 1..Len(calls) : ~calls[k].found})

\* the variables after a Read call that went as r
Returned(r) ==
    /\ scanner' = r.rd.scanner
    /\ runeBegin' = r.rd.runeBegin
    /\ runeEnd' = r.rd.runeEnd
    /\ segCount' = r.rd.segCount
    /\ rawSeg' = r.rd.rawSeg
    /\ stdout' = r.rd.stdout
    /\ ret' = [seg |-> r.seg, err |-> r.err]
    /\ calls' = Append(calls,
           [seen |-> r.seen, found |-> r.found, seg |-> r.seg, err |-> r.err,
            segCount |-> r.rd.segCount, runeBegin |-> r.rd.runeBegin,
            runeEnd |-> r.rd.runeEnd, elems |-> r.rd.rawSeg.Elems])

Read ==
    /\ Idle < MaxIdle
    /\ Returned(ReadStep(Self, decl))
    /\ UNCHANGED <<decl, input>>

-----------------------------------------------------------------------------
(* Configurations and inputs. *)

FileDecl(seg, elem, comp, rep, rel, ign) ==
    [SegDelim |-> seg, ElemDelim |-> elem, CompDelim |-> comp, RepDelim |-> rep,
     ReleaseChar |-> rel, IgnoreCRLF |-> ign]

SegDelims == {<<"~">>, lfBytes}
Optional(b) == {<<>>, <<b>>}

Range(s) == {s[k] : k \in 1..Len(s)}

\* the declarations of the stream specification: no component or
\* repetition delimiter
StreamDecls ==
    {FileDecl(sd, <<"*">>, <<>>, <<>>, rc, FALSE) :
        sd \in SegDelims, rc \in Optional("?")}

\* the declarations of the token specification
TokDecls ==
    {FileDecl(sd, <<"*">>, cd, rd, rc, FALSE) :
        sd \in SegDelims, cd \in Optional(":"), rd \in Optional("^"),
        rc \in Optional("?")}

\* the bytes of the streams: data, CR, LF, a byte that is no UTF-8, and the
\* segment delimiter and release byte of the declaration
StreamBytes(d) ==
    {"A", "CR", "LF", "xFF"} \cup Range(d.SegDelim) \cup Range(d.ReleaseChar)

\* the bytes of the token bodies: data, CR and the delimiters and release
\* byte of the declaration
TokBytes(d) ==
    {"A", "CR"} \cup Range(d.ElemDelim) \cup Range(d.CompDelim)
        \cup Range(d.RepDelim) \cup Range(d.ReleaseChar)

Created(d, data, rd) ==
    /\ decl = d
    /\ input = data
    /\ scanner = rd.scanner
    /\ runeBegin = rd.runeBegin
    /\ runeEnd = rd.runeEnd
    /\ segCount = rd.segCount
    /\ rawSeg = rd.rawSeg
    /\ stdout = rd.stdout
    /\ ret = [seg |-> ZeroRawSeg, err |-> NoErr]
    /\ calls = <<>>

Start(d, data, fails, last) ==
    Created(d, data, NewNonValidatingReader(data, fails, last, d))

\* any stream of up to MaxLen bytes, ending cleanly or with an I/O error
\* that comes after its last byte
Init ==
    \E d \in StreamDecls, fails \in BOOLEAN :
        \E data \in SeqsUpTo(StreamBytes(d), MaxLen) : Start(d, data, fails, 0)

\* a stream of one token: up to MaxTok bytes and the segment delimiter
InitTok ==
    \E d \in TokDecls :
        \E body \in SeqsUpTo(TokBytes(d), MaxTok) : Start(d, body \o d.SegDelim, FALSE, 0)

\* the declarations of SpecIO: a segment delimiter of two bytes as well
IODecls ==
    {FileDecl(sd, <<"*">>, <<>>, <<>>, rc, FALSE) :
        sd \in SegDelims \cup {<<"~", "LF">>}, rc \in Optional("?")}

\* any stream of up to MaxShort bytes, ending cleanly or with an I/O error
\* that comes with any number of its last bytes
InitIO ==
    \E d \in IODecls, fails \in BOOLEAN :
        \E data \in SeqsUpTo(StreamBytes(d), MaxShort) :
            \E last \in 0..(IF fails THEN Len(data) ELSE 0) :
                Start(d, data, fails, last)

\* the declarations of SpecCRLF: IgnoreCRLF set
CRLFDecls ==
    {FileDecl(sd, <<"*">>, <<>>, <<>>, rc, TRUE) :
        sd \in SegDelims, rc \in Optional("?")}

\* any stream of up to MaxShort bytes read with IgnoreCRLF, ending cleanly or
\* with an I/O error that comes after its last byte
InitCRLF ==
    \E d \in CRLFDecls, fails \in BOOLEAN :
        \E data \in SeqsUpTo(StreamBytes(d), MaxShort) : Start(d, data, fails, 0)

Next == Read

Spec == Init /\ [][Next]_vars

SpecTok == InitTok /\ [][Next]_vars

SpecIO == InitIO /\ [][Next]_vars

SpecCRLF == InitCRLF /\ [][Next]_vars

-----------------------------------------------------------------------------
(* Notions the properties are stated with. *)

NCalls == Len(calls)

\* the token a Read call handed to readToken (the last it scanned)
Token(c) == c.seen[Len(c.seen)]

\* a Read call that handed a token to readToken
Processed(c) == c.found /\ c.err # ErrCannotReadSeg

\* the last Read call returned a segment
ReturnedSeg == NCalls > 0 /\ ret.err = NoErr

\* only CR and LF bytes (none at all included)
OnlyCRLFBytes(b) == \A k \in 1..Len(b) : b[k] \in {"CR", "LF"}

Configured(delim) == delim # <<>>

-----------------------------------------------------------------------------
(* C1 *)

\* C1, as stated: in every RawSeg returned without error, Elems[0].Data is
\* Name, Elems[0].ElemIndex is 0 and every other entry has ElemIndex >= 1.
C1_NameSlotOnlyZero ==
    ReturnedSeg =>
        /\ ret.seg.Elems[1].Data = ret.seg.Name
        /\ ret.seg.Elems[1].ElemIndex = 0
        /\ \A k \in 2..Len(ret.seg.Elems) : ret.seg.Elems[k].ElemIndex >= 1

\* C1, amended: in every RawSeg returned without error, Elems[0].Data is
\* Name and Elems[0] has ElemIndex 0 and CompIndex 1; the entries with
\* ElemIndex 0 are the first entries of Elems (the repetitions and components
\* of the name element), every entry after them has ElemIndex >= 1, and
\* without a repetition and a component delimiter Elems[0] is the only entry
\* with ElemIndex 0.
C1_NameSlot ==
    ReturnedSeg =>
        /\ ret.seg.Elems[1].Data = ret.seg.Name
        /\ ret.seg.Elems[1].ElemIndex = 0
        /\ ret.seg.Elems[1].CompIndex = 1
        /\ \A k \in 2..Len(ret.seg.Elems) :
              \/ ret.seg.Elems[k].ElemIndex >= 1
              \/ /\ ret.seg.Elems[k].ElemIndex = 0
                 /\ ret.seg.Elems[k - 1].ElemIndex = 0
                 /\ Configured(decl.RepDelim) \/ Configured(decl.CompDelim)

\* a segment whose name element has a second component, and a further element
C1_Witness ==
    /\ ReturnedSeg
    /\ Len(ret.seg.Elems) >= 3
    /\ ret.seg.Elems[2].ElemIndex = 0
    /\ ret.seg.Elems[2].CompIndex = 2
    /\ ret.seg.Elems[3].ElemIndex = 1

-----------------------------------------------------------------------------
(* C2 *)

Fatal(e) == e \in {ErrMissingSegName, ErrCannotReadSeg}

\* C2, as stated: once Read has returned an ErrInvalidEDI, every later Read
\* returns that same error (and the zero RawSeg).
C2_FatalSticky == [][Fatal(ret.err) => ret' = ret]_vars

-----------------------------------------------------------------------------
(* C3 *)

\* the tokens a Read call skipped: all it scanned but the one it processed
Skipped(c) == IF c.found THEN Take(c.seen, Len(c.seen) - 1) ELSE c.seen

\* C3, as stated: a scanned token is skipped if and only if it is empty or
\* holds only CR and LF bytes.
C3_SkipsOnlyCRLF ==
    \A n \in 1..NCalls :
        /\ \A k \in 1..Len(Skipped(calls[n])) : OnlyCRLFBytes(Skipped(calls[n])[k])
        /\ calls[n].found => ~OnlyCRLFBytes(Token(calls[n]))

-----------------------------------------------------------------------------
(* C4 *)

\* the tokens of a stream, as the scanner cuts it, and what is left of the
\* stream after the last of them
RECURSIVE TokensOf(_, _)
TokensAfter(s, d) == IF s.ok THEN <<s.token>> \o TokensOf(s.sc.data, d) ELSE <<>>
TokensOf(data, d) == TokensAfter(Scan(NewScanner(data, FALSE, 0), d), d)

RestOf(data, d) == Drop(data, Len(Flatten(TokensOf(data, d))))

KeepNonBlank(toks) == SelectSeq(toks, LAMBDA t : ~OnlyCRLFBytes(t))

\* the stream without its tokens of only CR and LF, between segments or
\* after the last segment delimiter
WithoutBlank(data, d) ==
    Flatten(KeepNonBlank(TokensOf(data, d)))
        \o (IF OnlyCRLFBytes(RestOf(data, d)) THEN <<>> ELSE RestOf(data, d))

\* what n successive Read calls on reader rd return, with SegCount after each
RECURSIVE ReadResults(_, _, _)
ResultsAfter(r, d, n) ==
    <<[seg |-> r.seg, err |-> r.err, segCount |-> r.rd.segCount]>>
        \o ReadResults(r.rd, d, n - 1)
ReadResults(rd, d, n) == IF n = 0 THEN <<>> ELSE ResultsAfter(ReadStep(rd, d), d, n)

Observed == [n \in 1..NCalls |->
                [seg |-> calls[n].seg, err |-> calls[n].err, segCount |-> calls[n].segCount]]

\* C4: the results of the Read calls, and SegCount after each, are those of
\* the same calls on the input without its tokens of only CR and LF.
C4_BlankTokensIgnored ==
    Observed = ReadResults(
        NewNonValidatingReader(WithoutBlank(input, decl), scanner.fails, 0, decl),
        decl, NCalls)

\* two segments returned from an input with a token of only CR and LF
\* between them
C4_Witness ==
    /\ NCalls = 2
    /\ calls[1].err = NoErr /\ calls[2].err = NoErr
    /\ Len(calls[2].seen) = 2
    /\ OnlyCRLFBytes(calls[2].seen[1])
    /\ WithoutBlank(input, decl) # input

-----------------------------------------------------------------------------
(* C5 *)

\* the bytes of token c that readToken splits: the token without its
\* segment delimiter (and the CR before it when the delimiter is "\n")
Body(c) == dropSegDelim(Token(c), decl)

\* the entries of a token body read in one pass from left to right: i and j
\* are the element and component index of the entry being read, cur its
\* data so far, esc whether the last byte was a release byte in force
RECURSIVE Walk(_, _, _, _, _, _)
Walk(s, d, i, j, cur, esc) ==
    IF s = <<>> THEN <<RawSegElem(i, j, cur)>>
    ELSE IF esc THEN Walk(Tail(s), d, i, j, Append(cur, Head(s)), FALSE)
    ELSE IF <<Head(s)>> = d.ReleaseChar
         THEN Walk(Tail(s), d, i, j, Append(cur, Head(s)), TRUE)
    ELSE IF <<Head(s)>> = d.ElemDelim
         THEN <<RawSegElem(i, j, cur)>> \o Walk(Tail(s), d, i + 1, 1, <<>>, FALSE)
    ELSE IF <<Head(s)>> = d.RepDelim
         THEN <<RawSegElem(i, j, cur)>> \o Walk(Tail(s), d, i, 1, <<>>, FALSE)
    ELSE IF <<Head(s)>> = d.CompDelim
         THEN <<RawSegElem(i, j, cur)>> \o Walk(Tail(s), d, i, j + 1, <<>>, FALSE)
    ELSE Walk(Tail(s), d, i, j, Append(cur, Head(s)), FALSE)

\* C5: the entries of every token are, in input order, those of its
\* elements (index 0, 1, 2, ...), each element giving its repetitions, each
\* repetition one entry with CompIndex 1 without a component delimiter, and
\* else its components with CompIndex 1, 2, ... from 1 in every repetition.
C5_EntriesInOrder ==
    \A n \in 1..NCalls :
        Processed(calls[n]) => calls[n].elems = Walk(Body(calls[n]), decl, 0, 1, <<>>, FALSE)

\* a segment with an element after the name of two repetitions, the first
\* of two components
C5_Witness ==
    /\ ReturnedSeg
    /\ \E k \in 2..(Len(ret.seg.Elems) - 1) :
          /\ ret.seg.Elems[k].ElemIndex = 1
          /\ ret.seg.Elems[k].CompIndex = 2
          /\ ret.seg.Elems[k + 1].ElemIndex = 1
          /\ ret.seg.Elems[k + 1].CompIndex = 1

-----------------------------------------------------------------------------
(* C6 *)

IsRelease(b) == <<b>> = decl.ReleaseChar

IsDelim(b) == <<b>> \in ({decl.ElemDelim, decl.RepDelim, decl.CompDelim} \ {<<>>})

\* how many release bytes stand right before position p of s
RECURSIVE ReleaseRun(_, _)
ReleaseRun(s, p) ==
    IF p > 1 /\ IsRelease(s[p - 1]) THEN 1 + ReleaseRun(s, p - 1) ELSE 0

\* position p of s is escaped: an odd number of release bytes stands before it
EscapedAt(s, p) == ReleaseRun(s, p) % 2 = 1

Count(s, P(_, _)) == Cardinality({p \in 1..Len(s) : P(s, p)})

SplitsAt(s, p) == IsDelim(s[p]) /\ ~EscapedAt(s, p)

SplitsWhenNotAfterRelease(s, p) == IsDelim(s[p]) /\ ~(p > 1 /\ IsRelease(s[p - 1]))

ReleaseAt(s, p) == IsRelease(s[p])

AllData(elems) == Flatten([k \in 1..Len(elems) |-> elems[k].Data])

\* C6, as stated: a delimiter right after a release byte does not split (and
\* every other one does); the release bytes are kept in the Data.
C6_NoSplitAfterRelease ==
    \A n \in 1..NCalls :
        Processed(calls[n]) =>
            /\ Len(calls[n].elems) = 1 + Count(Body(calls[n]), SplitsWhenNotAfterRelease)
            /\ Count(AllData(calls[n].elems), ReleaseAt) = Count(Body(calls[n]), ReleaseAt)

\* C6, amended: a delimiter does not split when it is escaped, that is when
\* an odd number of release bytes stands right before it (a release byte
\* escapes the byte after it, a release byte included); every other
\* delimiter splits; the release bytes are all kept in the Data.
C6_NoSplitWhenEscaped ==
    \A n \in 1..NCalls :
        Processed(calls[n]) =>
            /\ Len(calls[n].elems) = 1 + Count(Body(calls[n]), SplitsAt)
            /\ Count(AllData(calls[n].elems), ReleaseAt) = Count(Body(calls[n]), ReleaseAt)
            /\ Len(AllData(calls[n].elems)) + Len(calls[n].elems) - 1 = Len(Body(calls[n]))

\* the token A*?*A: the name and one element, with the release byte and the
\* delimiter after it in its data
C6_Witness ==
    /\ ReturnedSeg
    /\ Configured(decl.ReleaseChar)
    /\ Len(ret.seg.Elems) = 2
    /\ ret.seg.Elems[2].Data = <<"?", "*", "A">>

-----------------------------------------------------------------------------
(* C7 *)

\* the bytes s start with a delimiter that is configured
StartsWithDelim(s) == s # <<>> /\ IsDelim(s[1])

\* C7: Read fails with "missing segment name" exactly when the token it
\* processed gave no entry or a first entry without data, which is when the
\* token body is empty or starts with a delimiter; it then returns the zero
\* RawSeg; for every other token it returns the segment, Name being the
\* data of the first entry.
C7_MissingSegName ==
    \A n \in 1..NCalls :
        /\ calls[n].err = ErrMissingSegName => Processed(calls[n])
        /\ Processed(calls[n]) =>
            /\ calls[n].err = ErrMissingSegName
                 <=> (Len(calls[n].elems) = 0 \/ Len(calls[n].elems[1].Data) = 0)
            /\ calls[n].err = ErrMissingSegName
                 <=> (Body(calls[n]) = <<>> \/ StartsWithDelim(Body(calls[n])))
            /\ calls[n].err = ErrMissingSegName => calls[n].seg = ZeroRawSeg
            /\ calls[n].err # ErrMissingSegName =>
                 /\ calls[n].err = NoErr
                 /\ calls[n].seg.valid
                 /\ calls[n].seg.Elems = calls[n].elems
                 /\ calls[n].seg.Name = calls[n].elems[1].Data
                 /\ calls[n].seg.Name # <<>>

\* Read failed on a token that starts with the element delimiter and has
\* data after it
C7_Witness ==
    /\ NCalls > 0
    /\ ret.err = ErrMissingSegName
    /\ ret.seg = ZeroRawSeg
    /\ Len(rawSeg.Elems) >= 2
    /\ rawSeg.Elems[1].Data = <<>>
    /\ rawSeg.Elems[2].Data # <<>>

-----------------------------------------------------------------------------
(* C8 *)

\* the tokens the Read calls so far handed to readToken, in call order
RECURSIVE ProcessedTokens(_)
ProcessedTokens(cs) ==
    IF cs = <<>> THEN <<>>
    ELSE (IF Head(cs).found THEN <<Token(Head(cs))>> ELSE <<>>)
             \o ProcessedTokens(Tail(cs))

IsPrefix(s, t) == Len(s) <= Len(t) /\ Take(t, Len(s)) = s

\* C8, as stated: the Read calls give the tokens of the input that are not
\* blank, each once and in input order (a segment returned is the token it
\* came from), and the Read after the last of them returns io.EOF.
C8_EveryTokenInOrder ==
    ~scanner.fails =>
        /\ IsPrefix(ProcessedTokens(calls), KeepNonBlank(TokensOf(input, decl)))
        /\ \A n \in 1..NCalls :
              /\ calls[n].err = NoErr => calls[n].seg.Raw = Token(calls[n])
              /\ ~calls[n].found =>
                    /\ calls[n].err = EOF
                    /\ ProcessedTokens(calls) = KeepNonBlank(TokensOf(input, decl))

-----------------------------------------------------------------------------
(* C9 *)

\* the Data of the entries joined again: the element delimiter between
\* elements, the repetition delimiter between the repetitions of an element,
\* the component delimiter between the components of a repetition
RECURSIVE Rejoin(_, _, _)
Rejoin(elems, d, k) ==
    IF k > Len(elems) THEN <<>>
    ELSE (IF k = 1 THEN <<>>
          ELSE IF elems[k].ElemIndex # elems[k - 1].ElemIndex THEN d.ElemDelim
          ELSE IF elems[k].CompIndex = 1 THEN d.RepDelim
          ELSE d.CompDelim)
         \o elems[k].Data \o Rejoin(elems, d, k + 1)

\* C9, as stated: the Data of a returned segment joined again, and the
\* segment delimiter, are the bytes of the token.
C9_RoundTrip ==
    ReturnedSeg => Rejoin(ret.seg.Elems, decl, 1) \o decl.SegDelim = ret.seg.Raw

\* the CR that readToken dropped from the token raw: one, when the segment
\* delimiter is "\n" and CR stands before it
DroppedCR(raw) ==
    IF decl.SegDelim = lfBytes /\ HasSuffix(raw, crBytes \o lfBytes)
    THEN crBytes ELSE <<>>

\* C9, amended: the Data of a returned segment joined again, then the CR
\* dropped before the segment delimiter "\n" if one was, then the segment
\* delimiter, are the bytes of the token.
C9_RoundTripButCR ==
    ReturnedSeg =>
        Rejoin(ret.seg.Elems, decl, 1) \o DroppedCR(ret.seg.Raw) \o decl.SegDelim
            = ret.seg.Raw

\* a segment of an element of two repetitions, the second of two components
C9_Witness ==
    /\ ReturnedSeg
    /\ Len(ret.seg.Elems) = 4
    /\ ret.seg.Elems[2].ElemIndex = 1
    /\ ret.seg.Elems[3].ElemIndex = 1 /\ ret.seg.Elems[3].CompIndex = 1
    /\ ret.seg.Elems[4].ElemIndex = 1 /\ ret.seg.Elems[4].CompIndex = 2

-----------------------------------------------------------------------------
(* C10 *)

\* token c without its segment delimiter
NoSegDelim(c) == Take(Token(c), Len(Token(c)) - Len(decl.SegDelim))

EndsInCR(s) == HasSuffix(s, crBytes)

\* what the first Read returns on a stream that holds the bytes data only
FirstRead(data) == ReadStep(NewNonValidatingReader(data, FALSE, 0, decl), decl)

\* the bytes s without their last byte, then "\n": a token that ends in CR
\* LF, with LF alone at its end instead
LFTerminated(s) == Take(s, Len(s) - 1) \o lfBytes

SameSegment(r, c) == r.err = c.err /\ r.seg.Name = c.seg.Name /\ r.seg.Elems = c.seg.Elems

\* C10, as stated: with the segment delimiter "\n", one CR at the end of a
\* token is dropped before the split, so that the token gives the Name and
\* Elems that it gives with LF alone at its end; with another segment
\* delimiter a CR at the end is data of the last entry.
C10_CRLFAsLF ==
    \A n \in 1..NCalls :
        (Processed(calls[n]) /\ EndsInCR(NoSegDelim(calls[n]))) =>
            IF decl.SegDelim = lfBytes
            THEN /\ calls[n].elems
                       = Walk(Take(NoSegDelim(calls[n]), Len(NoSegDelim(calls[n])) - 1),
                              decl, 0, 1, <<>>, FALSE)
                 /\ SameSegment(FirstRead(LFTerminated(NoSegDelim(calls[n]))), calls[n])
            ELSE EndsInCR(calls[n].elems[Len(calls[n].elems)].Data)

\* the byte before the CR at the end of s is an escaped byte, a release
\* byte in force or a CR
RECURSIVE InForce(_, _)
InForce(s, p) == p >= 1 /\ IsRelease(s[p]) /\ ~InForce(s, p - 1)

PlainBeforeCR(s) ==
    /\ ~EndsInCR(Take(s, Len(s) - 1))
    /\ ~InForce(s, Len(s) - 1)

\* C10, amended: with the segment delimiter "\n", one CR at the end of a
\* token (and one only, escaped or not) is dropped before the split; the
\* token gives the Name and Elems that it gives with LF alone at its end
\* when the byte before that CR is neither a CR nor a release byte that
\* escapes it; with another segment delimiter a CR at the end is data of the
\* last entry.
C10_CRLFAsLFUnlessEscaped ==
    \A n \in 1..NCalls :
        (Processed(calls[n]) /\ EndsInCR(NoSegDelim(calls[n]))) =>
            IF decl.SegDelim = lfBytes
            THEN /\ calls[n].elems
                       = Walk(Take(NoSegDelim(calls[n]), Len(NoSegDelim(calls[n])) - 1),
                              decl, 0, 1, <<>>, FALSE)
                 /\ PlainBeforeCR(NoSegDelim(calls[n])) =>
                       SameSegment(FirstRead(LFTerminated(NoSegDelim(calls[n]))), calls[n])
            ELSE EndsInCR(calls[n].elems[Len(calls[n].elems)].Data)

\* a segment of two elements returned from a token that ends in CR LF
C10_Witness ==
    /\ ReturnedSeg
    /\ decl.SegDelim = lfBytes
    /\ HasSuffix(ret.seg.Raw, <<"A", "CR", "LF">>)
    /\ Len(ret.seg.Elems) = 2
    /\ ret.seg.Elems[2].Data = <<"A">>

-----------------------------------------------------------------------------
(* C11: Read writes nothing. *)

\* C11: Read has no effect but on the reader's own state: no Read call,
\* successful or not, writes anything to standard output, and the input
\* stream is never written.
C11_NoOutput == stdout = <<>>

-----------------------------------------------------------------------------
(* C12: an I/O error of the stream is "cannot read segment", never io.EOF. *)

\* the tokens the first n Read calls took from the scanner
SeenThrough(n) == Flatten([k \in 1..n |-> calls[k].seen])

\* C12: when the stream returns an I/O error, the Read that finds no
\* further token returns "cannot read segment" with the zero RawSeg and no
\* Read returns io.EOF; io.EOF is returned only when the stream ended
\* cleanly and the calls so far have taken every token of it.
C12_IOErrorNotEOF ==
    \A n \in 1..NCalls :
        /\ (scanner.fails /\ ~calls[n].found) =>
              (calls[n].err = ErrCannotReadSeg /\ calls[n].seg = ZeroRawSeg)
        /\ calls[n].err = EOF =>
              /\ ~scanner.fails
              /\ ~calls[n].found
              /\ calls[n].seg = ZeroRawSeg
              /\ SeenThrough(n) = TokensOf(input, decl)

\* a stream that fails after a whole token: one segment, then the error
C12_Witness ==
    /\ scanner.fails
    /\ NCalls = 2
    /\ calls[1].err = NoErr
    /\ calls[2].err = ErrCannotReadSeg
    /\ ret.seg = ZeroRawSeg
    /\ ~calls[2].found

-----------------------------------------------------------------------------
(* C13: a release byte escapes a release byte. *)

\* where in the body the k-th entry ends: its Data and those before it, and
\* the one delimiter byte between two entries
EntryEnd(elems, k) == Len(AllData(SubSeq(elems, 1, k))) + (k - 1)

\* C13: the release byte escapes the byte after it, another release byte
\* included: a delimiter with exactly two release bytes right before it is
\* not escaped and splits, the entry before it ending at the two release
\* bytes, both kept (release '?', element delimiter '*': AB??*CD gives the
\* two entries "AB??" and "CD").
C13_SplitsAfterTwoReleases ==
    \A n \in 1..NCalls :
        Processed(calls[n]) =>
            \A p \in 1..Len(Body(calls[n])) :
                (IsDelim(Body(calls[n])[p]) /\ ReleaseRun(Body(calls[n]), p) = 2) =>
                    \E k \in 1..(Len(calls[n].elems) - 1) :
                        /\ EntryEnd(calls[n].elems, k) = p - 1
                        /\ HasSuffix(calls[n].elems[k].Data,
                                     decl.ReleaseChar \o decl.ReleaseChar)

\* the token A??*A gave the two entries "A??" and "A"
C13_Witness ==
    /\ ReturnedSeg
    /\ decl.ReleaseChar = <<"?">>
    /\ Len(ret.seg.Elems) = 2
    /\ ret.seg.Elems[1].Data = <<"A", "?", "?">>
    /\ ret.seg.Elems[2] = RawSegElem(1, 1, <<"A">>)

-----------------------------------------------------------------------------
(* C14: IgnoreCRLF is reading the input without its CR and LF bytes. *)

\* what n successive Read calls on reader rd return, with the rune positions
\* and SegCount after each
RECURSIVE ReadRuns(_, _, _)
RunsAfter(r, d, n) ==
    <<[seg |-> r.seg, err |-> r.err, runeBegin |-> r.rd.runeBegin,
       runeEnd |-> r.rd.runeEnd, segCount |-> r.rd.segCount]>>
        \o ReadRuns(r.rd, d, n - 1)
ReadRuns(rd, d, n) == IF n = 0 THEN <<>> ELSE RunsAfter(ReadStep(rd, d), d, n)

ObservedRuns ==
    [n \in 1..NCalls |->
        [seg |-> calls[n].seg, err |-> calls[n].err, runeBegin |-> calls[n].runeBegin,
         runeEnd |-> calls[n].runeEnd, segCount |-> calls[n].segCount]]

\* the declaration d without IgnoreCRLF
Plain(d) == [d EXCEPT !.IgnoreCRLF = FALSE]

HasCRLF(b) == \E k \in 1..Len(b) : b[k] \in {"CR", "LF"}

\* C14: with IgnoreCRLF the Read calls return what they return without it
\* on the input with every CR and LF byte taken out (the same segments,
\* errors and io.EOF, the same rune positions and SegCount); no Data, Name
\* or Raw returned holds a CR or LF byte, and the bytes taken out are not
\* counted in the rune positions.
C14_IgnoreCRLFAsStripped ==
    decl.IgnoreCRLF =>
        /\ ObservedRuns = ReadRuns(
               NewNonValidatingReader(StripCRLF(input), scanner.fails, 0, Plain(decl)),
               Plain(decl), NCalls)
        /\ \A n \in 1..NCalls :
              /\ ~HasCRLF(calls[n].seg.Raw)
              /\ ~HasCRLF(calls[n].seg.Name)
              /\ \A k \in 1..Len(calls[n].seg.Elems) : ~HasCRLF(calls[n].seg.Elems[k].Data)
        /\ runeEnd - 1 <= Len(StripCRLF(input))

\* with IgnoreCRLF, a segment returned from an input that holds a CR and an
\* LF before its segment delimiter
C14_Witness ==
    /\ decl.IgnoreCRLF
    /\ ReturnedSeg
    /\ \E i, j \in 1..Len(input) : input[i] = "CR" /\ input[j] = "LF"
    /\ Len(ret.seg.Raw) = Len(input) - 2
    /\ runeEnd = Len(input) - 1

-----------------------------------------------------------------------------
(* C15: the rune positions. *)

\* utf8.RuneCount of b: every byte of the model is one rune, the byte that
\* is no UTF-8 included (it decodes as one rune of width 1)
RuneCount(b) == Len(b)

\* C15, as stated: 1 <= RuneBegin <= RuneEnd; RuneEnd - 1 is the number of
\* runes of all the tokens scanned so far, the skipped ones and the segment
\* delimiters included; RuneBegin, RuneEnd span the last token scanned (the
\* offending token when Read returns "missing segment name").
C15_RunePositions ==
    /\ 1 <= runeBegin /\ runeBegin <= runeEnd
    /\ runeEnd - 1 = RuneCount(Flatten(SeenThrough(NCalls)))
    /\ \A n \in 1..NCalls :
          calls[n].seen # <<>> =>
              calls[n].runeEnd - calls[n].runeBegin = RuneCount(Token(calls[n]))

\* C15, as stated: RuneEnd never decreases.
C15_RuneEndMonotone == [][runeEnd' >= runeEnd]_vars

\* the same positions, for the inputs without a byte that is no UTF-8
C15_RunePositionsOfValid ==
    (\A k \in 1..Len(input) : input[k] # "xFF") => C15_RunePositions

-----------------------------------------------------------------------------
(* C16: the slice that drops the segment delimiter. *)

-----------------------------------------------------------------------------
(* C17: SegCount counts the Read calls. *)

\* how many of the Read calls so far returned a segment
SegsReturned == Cardinality({n \in 1..NCalls : calls[n].err = NoErr})

\* C17: SegCount is 0 at first and one more after every Read call, whatever
\* the call returned: after n calls it is n; it is the number of segments
\* returned as long as, and only as long as, no Read has returned io.EOF or
\* an error.
C17_SegCountCountsReads ==
    /\ segCount = NCalls
    /\ \A n \in 1..NCalls : calls[n].segCount = n
    /\ (segCount = SegsReturned) <=> (\A n \in 1..NCalls : calls[n].err = NoErr)

\* a segment, then "missing segment name", then io.EOF: SegCount is 3
C17_Witness ==
    /\ NCalls = 3
    /\ calls[1].err = NoErr
    /\ calls[2].err = ErrMissingSegName
    /\ calls[3].err = EOF
    /\ segCount = 3
    /\ SegsReturned = 1

-----------------------------------------------------------------------------
(* C18: the end of the input is sticky. *)

\* C18: once Read has returned io.EOF, every later Read returns io.EOF with
\* the zero RawSeg and leaves RuneBegin and RuneEnd as they are.
C18_EOFSticky ==
    [][ret.err = EOF =>
          /\ ret'.err = EOF
          /\ ret'.seg = ZeroRawSeg
          /\ runeBegin' = runeBegin
          /\ runeEnd' = runeEnd]_vars

\* a segment, then io.EOF twice
C18_Witness ==
    /\ NCalls = 3
    /\ calls[1].err = NoErr
    /\ calls[2].err = EOF
    /\ calls[3].err = EOF
    /\ ret = [seg |-> ZeroRawSeg, err |-> EOF]
    /\ calls[3].runeEnd = calls[2].runeEnd
    /\ calls[3].runeBegin = calls[2].runeBegin

====
